---- MODULE Spec2Model ----
(***************************************************************************)
(* Model of xfields/ibs/_kicks.py: the line_density estimator and the      *)
(* IBSSimpleKick beam element (construction, configuration, tracking,      *)
(* serialisation refusal).                                                 *)
(*                                                                         *)
(* Numbers: longitudinal coordinates are integers; every derived quantity  *)
(* (slice width, bin edges, bin centres, densities, weights) is computed   *)
(* exactly as a rational, with the IEEE results of a division by zero      *)
(* (x/0 = inf, 0/0 = nan) that numpy produces.  Rounding of float64 is not *)
(* modelled.                                                               *)
(***************************************************************************)
EXTENDS Integers, Sequences, FiniteSets, TLC

VARIABLES
    ld_particles,   \* line_density: the `particles` argument
    ld_num_slices,  \* line_density: the `num_slices` argument
    ld_result,      \* line_density: outcome of the call (None before it)
    kick,           \* the IBSSimpleKick element: {} before construction
    particles,      \* the ensemble the tracking loop carries
    at_turn,        \* particles.at_turn, the current turn
    turn_computed,  \* turn at which the cached coefficients were computed
    rng,            \* state of the seeded generator: draws consumed so far
    warnings,       \* warning records logged, as <<turn, axis>>
    outcome,        \* the last call and the exception it raised, if any
    recomputations, \* history: the growth-rate engine's calls, turn and rates
    tracked         \* history: turns of the track calls on the enabled element

ldvars == <<ld_particles, ld_num_slices, ld_result>>
kickvars == <<kick, particles, at_turn, turn_computed, rng, warnings, outcome,
              recomputations, tracked>>
vars == <<ldvars, kickvars>>

\* an unset attribute (Python's None) is the empty set, a set one {v}
Unset == {}
Some(v) == {v}
Get(o) == CHOOSE v \in o : TRUE

None == [kind |-> "None"]

\* ----- bounds of the model -----
MaxParticles == 3   \* particles in an ensemble
MaxZeta == 1        \* zeta ranges over -MaxZeta..MaxZeta
MaxSlices == 2      \* largest num_slices
MaxTurn == 3        \* turns tracked
MaxUpdateEvery == 2 \* largest update_every
MaxFormalismLen == 3 \* length of the generated formalism strings

\* 1e-7, the padding fraction of the slice width, as its inverse
PadInv == 10000000

\* ----- exact arithmetic with IEEE special values -----
Abs(x) == IF x < 0 THEN 0 - x ELSE x

RECURSIVE Gcd(_, _)
Gcd(a, b) == IF b = 0 THEN a ELSE Gcd(b, a % b)

NaN == [kind |-> "nan", num |-> 0, den |-> 1]
Inf == [kind |-> "inf", num |-> 1, den |-> 1]

\* the rational a/b, b > 0, in lowest terms
Frac(a, b) ==
    LET g == Gcd(Abs(a), b)
    IN  [kind |-> "finite", num |-> a \div g, den |-> b \div g]

IsFinite(f) == f.kind = "finite"

SeqSum(s) ==
    LET F[i \in 0..Len(s)] == IF i = 0 THEN 0 ELSE F[i - 1] + s[i]
    IN  F[Len(s)]

SeqMax(s) == CHOOSE x \in {s[i] : i \in 1..Len(s)} : \A j \in 1..Len(s) : s[j] <= x
SeqMin(s) == CHOOSE x \in {s[i] : i \in 1..Len(s)} : \A j \in 1..Len(s) : x <= s[j]

\* ----- line_density -----

\* variant of ActiveZeta without the state mask: every particle's coordinate
ActiveZeta_Unmasked(parts) == [i \in 1..Len(parts) |-> parts[i].zeta]

\* particles.zeta[particles.state > 0]: the coordinates of the active
\* particles, in ensemble order
ActiveZeta(parts) ==
    LET F[i \in 0..Len(parts)] ==
            IF i = 0 THEN <<>>
            ELSE IF parts[i].state > 0
                 THEN Append(F[i - 1], parts[i].zeta)
                 ELSE F[i - 1]
    IN  F[Len(parts)]

z_cut_head(zeta) == SeqMax(zeta)
z_cut_tail(zeta) == SeqMin(zeta)

\* Positions are held as integers in units of 1/Scale(num_slices), so that
\* the padded, evenly spaced edges are integers.
Scale(num_slices) == PadInv * num_slices * num_slices

\* slice_width = (z_cut_head - z_cut_tail) / num_slices, in units of 1/Scale
slice_width(zeta, num_slices) ==
    (z_cut_head(zeta) - z_cut_tail(zeta)) * PadInv * num_slices

\* 1e-7 * slice_width, in units of 1/Scale
Pad(zeta, num_slices) == slice_width(zeta, num_slices) \div PadInv

\* variant of EdgeStart with the padding added instead of subtracted
EdgeStart_PadInside(zeta, num_slices) ==
    z_cut_tail(zeta) * Scale(num_slices) + Pad(zeta, num_slices)

\* first and last point handed to linspace
EdgeStart(zeta, num_slices) ==
    z_cut_tail(zeta) * Scale(num_slices) - Pad(zeta, num_slices)
EdgeStop(zeta, num_slices) ==
    z_cut_head(zeta) * Scale(num_slices) + Pad(zeta, num_slices)

\* linspace(start, stop, num = num_slices + 1): edge i (1-based) is
\* start + (i - 1) * (stop - start) / num_slices; the step is an integer in
\* these units
bin_edges(zeta, num_slices) ==
    LET start == EdgeStart(zeta, num_slices)
        step  == (EdgeStop(zeta, num_slices) - start) \div num_slices
    IN  [i \in 1..(num_slices + 1) |-> start + (i - 1) * step]

\* (bin_edges[:-1] + bin_edges[1:]) / 2.0, in units of 1/(2 * Scale)
bin_centers(edges) == [i \in 1..(Len(edges) - 1) |-> edges[i] + edges[i + 1]]

\* numpy.histogram with explicit edges: bin i holds edges[i] <= x < edges[i+1],
\* the last bin also holds x = edges[last]
InBin(x, edges, i) ==
    /\ edges[i] <= x
    /\ IF i = Len(edges) - 1 THEN x <= edges[i + 1] ELSE x < edges[i + 1]

Counts(zeta, edges, scale) ==
    [i \in 1..(Len(edges) - 1) |->
        Cardinality({k \in 1..Len(zeta) : InBin(zeta[k] * scale, edges, i)})]

\* density=True: n / db / n.sum().  A density is kept as the count it stands
\* for (cnum / cden; a bin's own count is an integer) together with the bin
\* width db and the total; a zero width turns it into nan (count 0) or inf.
Density(cnum, cden, db, total) ==
    IF db = 0 \/ total = 0
    THEN (IF cnum = 0 THEN NaN ELSE Inf)
    ELSE [kind |-> "finite", num |-> Frac(cnum, cden).num,
          den |-> Frac(cnum, cden).den, db |-> db, total |-> total]

counts_normed(counts, edges) ==
    [i \in 1..Len(counts) |->
        Density(counts[i], 1, edges[i + 1] - edges[i], SeqSum(counts))]

\* numpy.interp(x, xp, fp) at one point x (in the units of xp): the end
\* values outside the grid, fp[j] on a grid point, linear in between (the
\* bins of one histogram share db and total)
Interp(x, xp, fp) ==
    LET n == Len(xp)
    IN  IF x < xp[1] THEN fp[1]
        ELSE IF x > xp[n] THEN fp[n]
        ELSE LET j == CHOOSE k \in 1..n :
                        /\ xp[k] <= x
                        /\ \A m \in 1..n : xp[m] <= x => m <= k
             IN  IF j = n \/ xp[j] = x THEN fp[j]
                 ELSE IF ~IsFinite(fp[j]) \/ ~IsFinite(fp[j + 1]) THEN NaN
                 ELSE Density(fp[j].num * (xp[j + 1] - xp[j])
                                 + (x - xp[j]) * (fp[j + 1].num - fp[j].num),
                              xp[j + 1] - xp[j], fp[j].db, fp[j].total)

Raised(e) == [kind |-> "raised", error |-> e]
Returned(w) == [kind |-> "returned", weights |-> w]

line_density(parts, num_slices) ==
    LET zeta == ActiveZeta(parts)
    IN  IF Len(zeta) = 0
        THEN Raised("ValueError")            \* max of an empty array
        ELSE IF num_slices + 1 < 0
        THEN Raised("ValueError")            \* linspace with num < 0
        ELSE IF num_slices < 1
        THEN Raised("ValueError")            \* interp on an empty grid
        ELSE LET edges  == bin_edges(zeta, num_slices)
                 xp     == bin_centers(edges)
                 counts == Counts(zeta, edges, Scale(num_slices))
                 fp     == counts_normed(counts, edges)
             IN  Returned([k \in 1..Len(zeta) |->
                     Interp(2 * zeta[k] * Scale(num_slices), xp, fp)])

\* ----- strings -----
\* A string is a sequence of one-character strings.
UpperCase == <<"A","B","C","D","E","F","G","H","I","J","K","L","M",
               "N","O","P","Q","R","S","T","U","V","W","X","Y","Z">>
LowerCase == <<"a","b","c","d","e","f","g","h","i","j","k","l","m",
               "n","o","p","q","r","s","t","u","v","w","x","y","z">>

LowerChar(c) ==
    IF \E i \in 1..Len(UpperCase) : UpperCase[i] = c
    THEN LowerCase[CHOOSE i \in 1..Len(UpperCase) : UpperCase[i] = c]
    ELSE c

\* variant of Lower that compares the string as given
Lower_AsGiven(str) == str

\* str.lower()
Lower(str) == [i \in 1..Len(str) |-> LowerChar(str[i])]

Nagaitsev == <<"n","a","g","a","i","t","s","e","v">>
BjorkenMtingwa == <<"b","j","o","r","k","e","n","-","m","t","i","n","g","w","a">>
BandM == <<"b","&","m">>

\* the tuple of the assert in __init__
AcceptedFormalisms == {Nagaitsev, BjorkenMtingwa, BandM}

\* ----- IBSSimpleKick.__init__ -----

\* variant of NewKick that starts the element switched on
NewKick_SwitchedOn(formalism, num_slices) ==
    [num_slices        |-> num_slices,
     formalism         |-> formalism,
     kick_coefficients |-> Unset,
     update_every      |-> Unset,
     name              |-> Unset,
     twiss             |-> Unset,
     scale_strength    |-> 1]

\* variant of NewKick that starts with default coefficients instead of none
NewKick_WithCoefficients(formalism, num_slices) ==
    [num_slices        |-> num_slices,
     formalism         |-> formalism,
     kick_coefficients |-> Some(<<0, 0, 0>>),
     update_every      |-> Unset,
     name              |-> Unset,
     twiss             |-> Unset,
     scale_strength    |-> 0]

\* the attributes __init__ assigns
NewKick(formalism, num_slices) ==
    [num_slices        |-> num_slices,
     formalism         |-> formalism,
     kick_coefficients |-> Unset,
     update_every      |-> Unset,
     name              |-> Unset,
     twiss             |-> Unset,
     scale_strength    |-> 0]

Call(op, err) == [call |-> op, raised |-> err, formalism |-> <<>>]
CallInit(formalism, err) ==
    [call |-> "__init__", raised |-> err, formalism |-> formalism]

\* IBSSimpleKick(formalism, num_slices): the assert, then the assignments
Construct(formalism, num_slices) ==
    /\ kick = Unset
    /\ IF Lower(formalism) \in AcceptedFormalisms
       THEN /\ kick' = Some(NewKick(formalism, num_slices))
            /\ outcome' = CallInit(formalism, "none")
       ELSE /\ kick' = kick
            /\ outcome' = CallInit(formalism, "AssertionError")
    /\ UNCHANGED <<particles, at_turn, turn_computed, rng, warnings,
                   recomputations, tracked, ldvars>>

\* variant of to_dict that returns instead of raising
to_dict_Returns ==
    /\ kick # Unset
    /\ outcome' = [call |-> "to_dict", raised |-> "none", formalism |-> <<>>]
    /\ UNCHANGED <<kick, particles, at_turn, turn_computed, rng, warnings,
                   recomputations, tracked, ldvars>>

\* ----- IBSKick.to_dict -----
to_dict ==
    /\ kick # Unset
    /\ outcome' = Call("to_dict", "NotImplementedError")
    /\ UNCHANGED <<kick, particles, at_turn, turn_computed, rng, warnings,
                   recomputations, tracked, ldvars>>

\* ----- line.configure_intrabeam_scattering -----
\* Sets the attributes __init__ leaves unset and switches the element on.
\* A non-positive update_every, or configuring a second time, is refused.
Configure(update_every) ==
    /\ kick # Unset
    /\ IF update_every < 1 \/ Get(kick).scale_strength # 0
       THEN /\ kick' = kick
            /\ outcome' = Call("configure", "InvalidConfiguration")
       ELSE /\ kick' = Some([Get(kick) EXCEPT !.update_every = Some(update_every),
                                              !.name = Some("ibs"),
                                              !.twiss = Some("twiss"),
                                              !.scale_strength = 1])
            /\ outcome' = Call("configure", "none")
    /\ UNCHANGED <<particles, at_turn, turn_computed, rng, warnings,
                   recomputations, tracked, ldvars>>

\* ----- IBSSimpleKick.track -----
Axes == <<"x", "y", "z">>

\* growth rates the engine may return, per axis <<x, y, z>>: positive
\* (growth) or negative (damping)
GrowthRates == { <<1, 1, 1>>, <<0 - 1, 1, 0 - 1>> }

\* growth rate clamped at zero
Clamp(rate) == IF rate < 0 THEN 0 ELSE rate

\* variant of ClampWarnings that warns for every axis once any is clamped
ClampWarnings_AllAxes(turn, rates) ==
    IF \E i \in 1..3 : rates[i] < 0
    THEN [i \in 1..3 |-> <<turn, Axes[i]>>]
    ELSE <<>>

\* the axes whose rate is clamped, in axis order: one warning each
ClampWarnings(turn, rates) ==
    LET F[i \in 0..3] ==
            IF i = 0 THEN <<>>
            ELSE IF rates[i] < 0 THEN Append(F[i - 1], <<turn, Axes[i]>>)
                 ELSE F[i - 1]
    IN  F[3]

\* the kick coefficients from the clamped rates, scaled by the interval
KickCoefficients(rates, update_every) ==
    [i \in 1..3 |-> Clamp(rates[i]) * update_every]

\* whether the cache is due: unset, or update_every turns old
UpdateDue(k, turn) ==
    \/ k.kick_coefficients = Unset
    \/ /\ turn_computed # Unset
       /\ k.update_every # Unset
       /\ turn - Get(turn_computed) >= Get(k.update_every)

HasActive(p) == \E i \in 1..Len(p) : p[i].state > 0

\* position of particle i among the active ones
ActiveIndex(p, i) == Cardinality({j \in 1..i : p[j].state > 0})

\* the i-th standard-normal draw of the seeded generator: a non-zero value
\* fixed by the generator's state
Draw(i) == IF i % 2 = 0 THEN 1 ELSE 0 - 1

\* r * sqrt(weight * K): zero when the product is zero, r times a positive
\* amplitude (one unit) when it is positive, not finite when the weight is not
Increment(r, weight, K) ==
    IF weight.kind = "nan" THEN NaN
    ELSE IF weight.kind = "inf"
    THEN (IF K = 0 THEN NaN ELSE [kind |-> "inf", num |-> r, den |-> 1])
    ELSE IF weight.num = 0 \/ K = 0 THEN Frac(0, 1)
    ELSE Frac(r, 1)

\* float addition of a momentum and an increment
FloatAdd(a, b) ==
    IF a.kind = "nan" \/ b.kind = "nan" THEN NaN
    ELSE IF a.kind = "inf" /\ b.kind = "inf"
    THEN (IF a.num = b.num THEN a ELSE NaN)
    ELSE IF a.kind = "inf" THEN a
    ELSE IF b.kind = "inf" THEN b
    ELSE Frac(a.num + b.num, 1)

\* the momenta after the kick: active particle i gets one draw per axis, the
\* draws of an axis taken for all active particles at once
Kicked(p, weights, K, seed) ==
    LET n == Len(weights)
        New(i, axis, old) ==
            FloatAdd(old, Increment(Draw(seed + (axis - 1) * n + ActiveIndex(p, i) - 1),
                                    weights[ActiveIndex(p, i)], K[axis]))
    IN  [i \in 1..Len(p) |->
            IF p[i].state > 0
            THEN [p[i] EXCEPT !.px = New(i, 1, p[i].px),
                              !.py = New(i, 2, p[i].py),
                              !.delta = New(i, 3, p[i].delta)]
            ELSE p[i]]

\* track(particles) on a disabled element or an ensemble without active
\* particles: nothing happens
TrackNoOp ==
    /\ kick # Unset
    /\ Get(kick).scale_strength = 0 \/ ~HasActive(particles)
    /\ outcome' = Call("track", "none")
    /\ tracked' = IF Get(kick).scale_strength = 0 THEN tracked
                  ELSE tracked \cup {at_turn}
    /\ UNCHANGED <<kick, particles, turn_computed, rng, warnings, recomputations>>

\* track(particles) on the enabled element: refresh the coefficients when
\* due, then weigh by the line density and kick the active particles
TrackKick ==
    /\ kick # Unset
    /\ Get(kick).scale_strength # 0
    /\ HasActive(particles)
    /\ \E rates \in GrowthRates :
        LET k    == Get(kick)
            due  == UpdateDue(k, at_turn)
            K    == IF due THEN KickCoefficients(rates, Get(k.update_every))
                    ELSE Get(k.kick_coefficients)
            dens == line_density(particles, k.num_slices)
        IN  /\ ~due => rates = <<1, 1, 1>>
            /\ kick' = IF due THEN Some([k EXCEPT !.kick_coefficients = Some(K)])
                       ELSE kick
            /\ turn_computed' = IF due THEN Some(at_turn) ELSE turn_computed
            /\ recomputations' =
                 IF due THEN Append(recomputations, [turn |-> at_turn, rates |-> rates])
                 ELSE recomputations
            /\ warnings' = IF due THEN warnings \o ClampWarnings(at_turn, rates)
                           ELSE warnings
            /\ tracked' = tracked \cup {at_turn}
            /\ IF dens.kind = "raised"
               THEN /\ outcome' = Call("track", dens.error)
                    /\ UNCHANGED <<particles, rng>>
               ELSE /\ outcome' = Call("track", "none")
                    /\ particles' = Kicked(particles, dens.weights, K, rng)
                    /\ rng' = rng + 3 * Len(dens.weights)

\* one turn of the tracking loop: the element tracks the ensemble, and the
\* turn counter advances unless the element raised
TrackTurn ==
    /\ at_turn < MaxTurn
    /\ TrackNoOp \/ TrackKick
    /\ at_turn' = IF outcome'.raised = "none" THEN at_turn + 1 ELSE at_turn
    /\ UNCHANGED ldvars

\* a particle is lost on the way round the ring
LoseParticle(i) ==
    /\ particles[i].state > 0
    /\ particles' = [particles EXCEPT ![i].state = 0]
    /\ UNCHANGED <<kick, at_turn, turn_computed, rng, warnings, outcome,
                   recomputations, tracked, ldvars>>

\* ----- specification of the element's life -----
Letters == {"B", "&", "m"}
ShortStrings == UNION {[1..n -> Letters] : n \in 0..MaxFormalismLen}
Formalisms ==
    ShortStrings \cup
    { BjorkenMtingwa,
      <<"N","a","g","a","i","t","s","e","v">>,
      <<"q","u","a","d","r","u","p","o","l","e">>,
      <<"k","i","n","e","t","i","c">> }

Zero == Frac(0, 1)
AtRest(z) == [zeta |-> z, state |-> 1, px |-> Zero, py |-> Zero, delta |-> Zero]

\* the ensemble the tracking loop carries: two active particles, apart in zeta
TrackedEnsemble == <<AtRest(0), AtRest(MaxZeta)>>

LDIdle ==
    /\ ld_particles = <<>>
    /\ ld_num_slices = 1
    /\ ld_result = None

KickIdle ==
    /\ kick = Unset
    /\ particles = TrackedEnsemble
    /\ at_turn = 0
    /\ turn_computed = Unset
    /\ rng = 0
    /\ warnings = <<>>
    /\ outcome = Call("none", "none")
    /\ recomputations = <<>>
    /\ tracked = {}

Init == KickIdle /\ LDIdle

Next ==
    \/ \E f \in Formalisms, n \in 0..MaxSlices : Construct(f, n)
    \/ \E u \in 0..MaxUpdateEvery : Configure(u)
    \/ TrackTurn
    \/ to_dict
    \/ \E i \in 1..Len(particles) : LoseParticle(i)

Spec == Init /\ [][Next]_vars

\* ----- specification of line_density as a function of its arguments -----
ZetaValues == (0 - MaxZeta)..MaxZeta
StateValues == {0, 1}
Particle == [zeta : ZetaValues, state : StateValues]
Ensembles == UNION {[1..n -> Particle] : n \in 0..MaxParticles}
SliceValues == (0 - 1)..MaxSlices

LDInit ==
    /\ ld_particles \in Ensembles
    /\ ld_num_slices \in SliceValues
    /\ ld_result = None
    /\ KickIdle

CallLineDensity ==
    /\ ld_result = None
    /\ ld_result' = line_density(ld_particles, ld_num_slices)
    /\ UNCHANGED <<ld_particles, ld_num_slices, kickvars>>

LDNext == CallLineDensity

LDSpec == LDInit /\ [][LDNext]_vars

\* ======================= properties =======================

\* ----- helpers of the properties -----
CasePairs == {<<UpperCase[i], LowerCase[i]>> : i \in 1..Len(UpperCase)}

\* s spells t (a lower-case name) up to the case of its letters
Spells(s, t) ==
    /\ Len(s) = Len(t)
    /\ \A i \in 1..Len(s) : s[i] = t[i] \/ <<s[i], t[i]>> \in CasePairs

SpellsAccepted(s) ==
    Spells(s, Nagaitsev) \/ Spells(s, BjorkenMtingwa) \/ Spells(s, BandM)

Constructed == kick # Unset
Enabled == Constructed /\ Get(kick).scale_strength # 0
\* the configuration entry point has never set the element's attributes
NeverConfigured == Constructed /\ Get(kick).name = Unset

AtInitialMomenta(p) ==
    \A i \in 1..Len(p) : p[i].px = Zero /\ p[i].py = Zero /\ p[i].delta = Zero

\* C1: construction succeeds exactly when the formalism spells one of
\* nagaitsev, bjorken-mtingwa, b&m up to case; otherwise it raises and no
\* element exists, so every element that exists, and every element tracked,
\* has an accepted formalism.
C1_FormalismChecked ==
    /\ outcome.call = "__init__" =>
          /\ (outcome.raised = "none") = SpellsAccepted(outcome.formalism)
          /\ outcome.raised = "none" =>
                Constructed /\ Get(kick).formalism = outcome.formalism
          /\ outcome.raised # "none" =>
                outcome.raised = "AssertionError" /\ ~Constructed
    /\ Constructed => SpellsAccepted(Get(kick).formalism)
    /\ (at_turn > 0 \/ tracked # {}) =>
          Constructed /\ SpellsAccepted(Get(kick).formalism)

\* the construction with "quadrupole" was refused, and no element exists
C1_Witness ==
    /\ outcome = CallInit(<<"q","u","a","d","r","u","p","o","l","e">>, "AssertionError")
    /\ ~Constructed

\* C2: an element never configured is disabled, with its coefficients and
\* update_every unset; however many times it has tracked, no call raised,
\* no momentum changed, nothing was computed or cached, no draw was consumed.
C2_UnconfiguredIsInert ==
    NeverConfigured =>
        /\ Get(kick).scale_strength = 0
        /\ Get(kick).kick_coefficients = Unset
        /\ Get(kick).update_every = Unset
        /\ turn_computed = Unset
        /\ recomputations = <<>>
        /\ warnings = <<>>
        /\ rng = 0
        /\ AtInitialMomenta(particles)
        /\ outcome.call = "track" => outcome.raised = "none"

\* an unconfigured element has tracked an ensemble with active particles twice
C2_Witness ==
    /\ NeverConfigured
    /\ at_turn >= 2
    /\ outcome.call = "track"
    /\ HasActive(particles)

\* turns of the recomputations, in order
ComputedAt == [k \in 1..Len(recomputations) |-> recomputations[k].turn]

SetMin(S) == CHOOSE x \in S : \A y \in S : x <= y
SetMax(S) == CHOOSE x \in S : \A y \in S : y <= x

\* first, first + every, first + 2 * every, ... up to last
Schedule(first, last, every) ==
    [k \in 1..((last - first) \div every + 1) |-> first + (k - 1) * every]

OnSchedule ==
    LET every == Get(Get(kick).update_every)
        due   == Schedule(SetMin(tracked), SetMax(tracked), every)
    IN  /\ ComputedAt = due
        /\ turn_computed = Some(due[Len(due)])
        /\ Get(kick).kick_coefficients # Unset

C6_NonPositiveSlicesRejected == Constructed => Get(kick).num_slices >= 1

\* C7: every to_dict call raises, returns nothing, and leaves the element,
\* the ensemble and the cache as they were.
C7_ToDictRefuses ==
    [][(outcome'.call = "to_dict" /\ outcome' # outcome) =>
          /\ outcome'.raised = "NotImplementedError"
          /\ kick' = kick
          /\ particles' = particles
          /\ turn_computed' = turn_computed
          /\ rng' = rng
          /\ warnings' = warnings]_vars

\* to_dict was called on a configured element holding coefficients
C7_Witness ==
    /\ outcome.call = "to_dict"
    /\ Enabled
    /\ Get(kick).kick_coefficients # Unset

\* number of warnings logged at a turn for an axis
WarningsFor(turn, axis) ==
    Cardinality({k \in 1..Len(warnings) : warnings[k] = <<turn, axis>>})

\* C9: each axis whose growth rate came back negative in a recomputation
\* has exactly one warning for that recomputation and a zero coefficient;
\* turns that reuse the bundle add no warning; the coefficients in use are
\* the clamped rates of the last recomputation.
C9_ClampedAndWarnedOnce ==
    /\ \A t \in 0..MaxTurn, a \in 1..3 :
          WarningsFor(t, Axes[a]) =
             Cardinality({k \in 1..Len(recomputations) :
                            recomputations[k].turn = t /\ recomputations[k].rates[a] < 0})
    /\ \A k \in 1..Len(recomputations), j \in 1..Len(recomputations) :
          recomputations[k].turn = recomputations[j].turn => k = j
    /\ (Enabled /\ recomputations # <<>>) =>
          LET last == recomputations[Len(recomputations)].rates
              K    == Get(Get(kick).kick_coefficients)
          IN  \A a \in 1..3 :
                 /\ K[a] >= 0
                 /\ last[a] < 0 => K[a] = 0
                 /\ last[a] >= 0 => K[a] = last[a] * Get(Get(kick).update_every)

\* a recomputation clamped two axes, and a later turn reused its bundle
C9_Witness ==
    /\ Enabled
    /\ Len(recomputations) = 1
    /\ recomputations[1].rates = <<0 - 1, 1, 0 - 1>>
    /\ Cardinality(tracked) = 2
    /\ Len(warnings) = 2
    /\ outcome = Call("track", "none")

\* ----- line_density -----
LDCalled == ld_result # None
LDActive == ActiveZeta(ld_particles)
LDAllSame == \A i, j \in 1..Len(LDActive) : LDActive[i] = LDActive[j]

\* C4 as stated: with all active particles at one coordinate the weights
\* are returned, finite and uniform.
C4_DegenerateUniformFinite ==
    (LDCalled /\ ld_num_slices >= 1 /\ Len(LDActive) >= 1 /\ LDAllSame) =>
        /\ ld_result.kind = "returned"
        /\ \A k \in 1..Len(ld_result.weights) :
              /\ IsFinite(ld_result.weights[k])
              /\ ld_result.weights[k] = ld_result.weights[1]

\* C5 as stated: without an active particle the weights are the empty
\* sequence and nothing is raised.
C5_NoActiveNoRaise ==
    (LDCalled /\ ld_num_slices >= 1 /\ Len(LDActive) = 0) =>
        ld_result = Returned(<<>>)

Reverse(s) == [i \in 1..Len(s) |-> s[Len(s) + 1 - i]]
OnlyActive(p) == SelectSeq(p, LAMBDA x : x.state > 0)
InactiveMovedTo(p, z) ==
    [i \in 1..Len(p) |-> IF p[i].state > 0 THEN p[i] ELSE [p[i] EXCEPT !.zeta = z]]

\* C8: one weight per active particle, in the order of the active
\* particles (equal coordinates get equal weights, reversing the ensemble
\* reverses the weights); inactive particles get none and neither their
\* presence nor their coordinates change any weight.
C8_OneWeightPerActive ==
    (LDCalled /\ ld_num_slices >= 1 /\ Len(LDActive) >= 1) =>
        /\ ld_result.kind = "returned"
        /\ Len(ld_result.weights) =
              Cardinality({i \in 1..Len(ld_particles) : ld_particles[i].state > 0})
        /\ \A i, j \in 1..Len(ld_result.weights) :
              LDActive[i] = LDActive[j] => ld_result.weights[i] = ld_result.weights[j]
        /\ line_density(Reverse(ld_particles), ld_num_slices)
              = Returned(Reverse(ld_result.weights))
        /\ line_density(OnlyActive(ld_particles), ld_num_slices) = ld_result
        /\ \A z \in ZetaValues :
              line_density(InactiveMovedTo(ld_particles, z), ld_num_slices) = ld_result

\* an ensemble mixing active and inactive particles at different
\* coordinates, with unequal weights
C8_Witness ==
    /\ LDCalled
    /\ ld_num_slices = 2
    /\ Len(ld_particles) = 3
    /\ Len(LDActive) = 2
    /\ ld_result.kind = "returned"
    /\ \E i \in 1..3 : ld_particles[i].state = 0 /\ ld_particles[i].zeta < SeqMin(LDActive)

====
